---------------------------- MODULE Spec2Model ----------------------------
(***************************************************************************)
(* Model of src/index.js: the yt-dlp command-line front end.               *)
(*                                                                         *)
(* Text is modelled as a sequence of tokens.  A token is one character     *)
(* ("4", ".", "%", " ", "\n") or one literal that the code searches for    *)
(* as a unit ("[download]", "[Merger]", ...).  Numbers are fixed point     *)
(* with one fractional digit: 45.2 is 452, 100 is 1000, and the initial    *)
(* lastProgress -1 is -10.  Console output is kept per originating      *)
(* handler (events / errOut / closeOut); the blank console.log() calls     *)
(* and the cursor control of clearLine() are not recorded.                 *)
(***************************************************************************)
EXTENDS Integers, Sequences, FiniteSets, TLC

\* ------------------------------------------------------------------ bounds
\* Number of writes of the subprocess in one run of downloadVideo: lines on
\* its standard output and chunks on its standard error, taken together.
MaxWrites == 2
\* The same for a run that is started from the command line.
MaxWritesMain == 1
\* Length of the generated answers to the quality prompt.
MaxInputLen == 2
\* Widths createProgressBar is tried with, besides the default one.
MaxWidth == 10
\* How far below 0 and above 100 its percentages go, in tenths.
MaxExcess == 500

\* ------------------------------------------------------------------ tokens
DL      == "[download]"
SP      == " "
NL      == "\n"
DOT     == "."
PCT     == "%"
DEST    == "Destination:"
ALREADY == "has already been downloaded"
MERGER  == "[Merger]"
FFMPEG  == "[ffmpeg]"
DELETING == "Deleting original file"
EMBED   == "[EmbedThumbnail]"
META    == "[Metadata]"
TXT     == "x"

Digits == {"0", "1", "2", "3", "4", "5", "6", "7", "8", "9"}

\* The tokens of more than one character that standard output can carry.
Literals == {DL, DEST, ALREADY, MERGER, FFMPEG, DELETING, EMBED, META}

\* The two parts of a literal when the stream is cut inside it.
FirstPart(t) ==
  CASE t = DL -> "[down" [] t = DEST -> "Destin" [] t = ALREADY -> "has already"
    [] t = MERGER -> "[Mer" [] t = FFMPEG -> "[ffm" [] t = DELETING -> "Deleting"
    [] t = EMBED -> "[Embed" [] t = META -> "[Meta"

SecondPart(t) ==
  CASE t = DL -> "load]" [] t = DEST -> "ation:" [] t = ALREADY -> " been downloaded"
    [] t = MERGER -> "ger]" [] t = FFMPEG -> "peg]" [] t = DELETING -> " original file"
    [] t = EMBED -> "Thumbnail]" [] t = META -> "data]"

DigitVal(c) ==
  CASE c = "0" -> 0 [] c = "1" -> 1 [] c = "2" -> 2 [] c = "3" -> 3
    [] c = "4" -> 4 [] c = "5" -> 5 [] c = "6" -> 6 [] c = "7" -> 7
    [] c = "8" -> 8 [] c = "9" -> 9

\* ------------------------------------------------------- string primitives
\* String.prototype.includes: pat occurs in s as a contiguous run.
Includes(s, pat) ==
  \E i \in 1..(Len(s) - Len(pat) + 1) : SubSeq(s, i, i + Len(pat) - 1) = pat

\* line.trim() is the empty string.
IsBlank(s) == \A i \in 1..Len(s) : s[i] = SP

\* String.prototype.split("\n"): the pieces between newlines, the piece after
\* the last newline (possibly empty) included.
RECURSIVE SplitFrom(_, _, _)
SplitFrom(s, i, cur) ==
  IF i > Len(s) THEN <<cur>>
  ELSE IF s[i] = NL THEN <<cur>> \o SplitFrom(s, i + 1, <<>>)
  ELSE SplitFrom(s, i + 1, Append(cur, s[i]))

SplitLines(s) == SplitFrom(s, 1, <<>>)

\* Length of the longest run of tokens of s from position i that are in set.
RECURSIVE RunLen(_, _, _)
RunLen(s, i, set) ==
  IF i <= Len(s) /\ s[i] \in set THEN 1 + RunLen(s, i + 1, set) ELSE 0

\* /\[download\]\s+(\d+\.?\d*)%/ tried at position i of line: the captured
\* group, or <<>> when the pattern does not match there.  The character
\* classes are disjoint, so the greedy match is the only one.
MatchAt(line, i) ==
  IF line[i] # DL THEN <<>>
  ELSE LET ns == RunLen(line, i + 1, {SP})
           d0 == i + 1 + ns
           n1 == RunLen(line, d0, Digits)
           hasDot == (d0 + n1 <= Len(line)) /\ line[d0 + n1] = DOT
           f0 == d0 + n1 + (IF hasDot THEN 1 ELSE 0)
           n2 == RunLen(line, f0, Digits)
       IN IF ns >= 1 /\ n1 >= 1 /\ f0 + n2 <= Len(line) /\ line[f0 + n2] = PCT
          THEN SubSeq(line, d0, f0 + n2 - 1)
          ELSE <<>>

\* line.match(...): the capture of the leftmost match, <<>> for null.
DownloadMatch(line) ==
  LET hits == {i \in 1..Len(line) : MatchAt(line, i) # <<>>}
  IN IF hits = {} THEN <<>>
     ELSE MatchAt(line, CHOOSE i \in hits : \A j \in hits : i <= j)

\* Value of a run of decimal digits.
RECURSIVE DigitsValue(_)
DigitsValue(ds) ==
  IF ds = <<>> THEN 0
  ELSE 10 * DigitsValue(SubSeq(ds, 1, Len(ds) - 1)) + DigitVal(ds[Len(ds)])

\* Variant: parseInt in the place of parseFloat, the fraction is dropped.
ParseFloat_AsParseInt(cap) == 10 * DigitsValue(SubSeq(cap, 1, RunLen(cap, 1, Digits)))

\* parseFloat of a capture of the pattern above, in tenths.  The inputs of
\* the model carry at most one fractional digit.
ParseFloat(cap) ==
  LET n1 == RunLen(cap, 1, Digits)
      frac == IF n1 + 2 <= Len(cap) THEN DigitVal(cap[n1 + 2]) ELSE 0
  IN 10 * DigitsValue(SubSeq(cap, 1, n1)) + frac

\* Math.floor of a fixed-point value.
Floor(p) == p \div 10

\* ------------------------------------------------------ createProgressBar
\* function createProgressBar(percentage, width = 40)
DefaultWidth == 40

\* Math.round(n / d) for d > 0: the nearest integer, a half goes up.
Round(n, d) == (2 * n + d) \div (2 * d)

\* String.prototype.repeat throws a RangeError for a negative count.
RepeatThrows(count) == count < 0

RangeError == <<"RangeError">>

\* String.prototype.repeat for a count that is not negative.
Repeat(glyph, count) == [i \in 1..count |-> glyph]

\* const empty = width - filled;
EmptyCount(width, filled) == width - filled

\* The bar for a percentage given in tenths, "#" for the filled glyph and
\* "-" for the empty one; RangeError when the call throws.
createProgressBar(percentage, width) ==
  LET filled == Round(percentage * width, 1000)
      empty == EmptyCount(width, filled)
  IN IF RepeatThrows(filled) \/ RepeatThrows(empty) THEN RangeError
     ELSE <<"[">> \o Repeat("#", filled) \o Repeat("-", empty) \o <<"]">>

\* ------------------------------------------------- the stdout line handler
\* What the handler prints, by kind; percent is meaningful for Downloading.
Event(kind, percent) == [kind |-> kind, percent |-> percent]

Note(kind) == Event(kind, 0)

\* The closure variables of downloadVideo that the stdout handler uses, and
\* what it has printed so far.
ClassifierInit ==
  [lastProgress |-> -10, isDownloading |-> FALSE, isMerging |-> FALSE,
   out |-> <<>>]

\* Variant: the test without "|| progress === 100".
ShouldEmit_FloorOnly(progress, lastProgress) ==
  Floor(progress) # Floor(lastProgress)

\* if (Math.floor(progress) !== Math.floor(lastProgress) || progress === 100)
ShouldEmit(progress, lastProgress) ==
  Floor(progress) # Floor(lastProgress) \/ progress = 1000

\* Variant: the branch without "lastProgress = progress".
ProgressBranch_NoRemember(st, line) ==
  LET cap == DownloadMatch(line)
      progress == ParseFloat(cap)
  IN IF cap = <<>> THEN st
     ELSE IF ShouldEmit(progress, st.lastProgress)
     THEN [st EXCEPT !.isDownloading = TRUE,
                     !.out = Append(@, Event("Downloading", progress))]
     ELSE [st EXCEPT !.isDownloading = TRUE]

\* The download-progress branch of the loop body.
ProgressBranch(st, line) ==
  LET cap == DownloadMatch(line)
      progress == ParseFloat(cap)
  IN IF cap = <<>> THEN st
     ELSE IF ShouldEmit(progress, st.lastProgress)
     THEN [st EXCEPT !.isDownloading = TRUE,
                     !.out = Append(@, Event("Downloading", progress)),
                     !.lastProgress = progress]
     ELSE [st EXCEPT !.isDownloading = TRUE]

\* The destination-message branch.
DestinationBranch(st, line) ==
  IF Includes(line, <<DL, SP, DEST>>) /\ ~st.isDownloading
  THEN [st EXCEPT !.out = Append(@, Note("Initialized"))]
  ELSE st

\* Variant: the branch without "if (!isMerging)".
CompletedBranch_AnyPhase(st, line) ==
  IF Includes(line, <<DL, SP, "1", "0", "0", PCT>>) \/ Includes(line, <<ALREADY>>)
  THEN [st EXCEPT !.out = Append(@, Note("DownloadCompleted"))]
  ELSE st

\* The download-completed branch.
CompletedBranch(st, line) ==
  IF Includes(line, <<DL, SP, "1", "0", "0", PCT>>) \/ Includes(line, <<ALREADY>>)
  THEN IF ~st.isMerging
       THEN [st EXCEPT !.out = Append(@, Note("DownloadCompleted"))]
       ELSE st
  ELSE st

\* Variant: "[download]" in the place of "[ffmpeg]".
IsMergeLine_WrongTag(line) == Includes(line, <<MERGER>>) \/ Includes(line, <<DL>>)

\* line.includes("[Merger]") || line.includes("[ffmpeg]")
IsMergeLine(line) == Includes(line, <<MERGER>>) \/ Includes(line, <<FFMPEG>>)

\* The merging branch.
MergingBranch(st, line) ==
  IF IsMergeLine(line)
  THEN IF ~st.isMerging
       THEN [st EXCEPT !.out = Append(@, Note("Merging")), !.isMerging = TRUE]
       ELSE st
  ELSE st

\* The clean-up branch.
CleanupBranch(st, line) ==
  IF Includes(line, <<DELETING>>)
  THEN [st EXCEPT !.out = Append(@, Note("CleaningUp"))]
  ELSE st

\* The metadata branch.
EmbeddingBranch(st, line) ==
  IF Includes(line, <<EMBED>>) \/ Includes(line, <<META>>)
  THEN [st EXCEPT !.out = Append(@, Note("EmbeddingMetadata"))]
  ELSE st

\* One iteration of "for (const line of lines)": the six ifs run in sequence,
\* none of them excludes a later one.
ProcessLine(st, line) ==
  IF IsBlank(line) THEN st
  ELSE EmbeddingBranch(
         CleanupBranch(
           MergingBranch(
             CompletedBranch(
               DestinationBranch(
                 ProgressBranch(st, line), line), line), line), line), line)

RECURSIVE ProcessLines(_, _)
ProcessLines(st, lines) ==
  IF lines = <<>> THEN st
  ELSE ProcessLines(ProcessLine(st, Head(lines)), Tail(lines))

\* childProcess.stdout.on("data", ...): the chunk is split at newlines and
\* every piece is classified at once, the piece after the last newline too.
StdoutHandler(st, chunk) == ProcessLines(st, SplitLines(chunk))

\* ------------------------------------------------- the stderr chunk handler
ERRORMARK == "ERROR"
WARNMARK  == "WARNING"
UNABLE    == "unable to download"
FFWORD    == "ffmpeg"

\* String.prototype.trim on a chunk: white space and newlines at both ends go.
RECURSIVE Trim(_)
Trim(s) ==
  IF s = <<>> THEN s
  ELSE IF Head(s) \in {SP, NL} THEN Trim(Tail(s))
  ELSE IF s[Len(s)] \in {SP, NL} THEN Trim(SubSeq(s, 1, Len(s) - 1))
  ELSE s

Message(type, text) == [type |-> type, text |-> text]

\* childProcess.stderr.on("data", ...): the messages printed for one chunk.
\* The tests are made on the whole chunk, whatever lines it holds.
StderrHandler(chunk) ==
  IF Includes(chunk, <<ERRORMARK>>)
  THEN IF Includes(chunk, <<FFWORD>>)
       THEN <<Message("warning", <<"ffmpeg not available - downloading best single format">>)>>
       ELSE <<Message("error", Trim(chunk))>>
  ELSE IF Includes(chunk, <<WARNMARK>>) /\ Includes(chunk, <<UNABLE>>)
  THEN <<Message("warning", Trim(chunk))>>
  ELSE <<>>

\* ------------------------------------------------------ the close handler
\* The exit statuses the handler can be given: a number, or null when the
\* subprocess was ended by a signal.
ExitCodes == {"0", "1", "2", "null"}

\* Status that follows a failed spawn (a negative errno).
SpawnErrorCodes == {"-13"}

\* What the probe of the candidate output paths can find.
Probes == {"found", "listed", "nothing"}

\* Variant: only status 0 is accepted.
Accepted_ZeroOnly(code) == code = "0"

\* Variant: every status but 2 is accepted, the negative ones too.
Accepted_AllButTwo(code) == code # "2"

\* if (code === 0 || code === 1)
Accepted(code) == code = "0" \/ code = "1"

\* Variant: the test without "&& isMerging".
IsDegraded_AnyStatusOne(code, merging) == code = "1"

\* if (code === 1 && isMerging)
IsDegraded(code, merging) == code = "1" /\ merging

SummaryMessages(code, merging) ==
  IF IsDegraded(code, merging)
  THEN <<Message("warning", <<"Download completed with warnings">>),
         Message("info", <<"Video and audio may be in separate files or lower quality">>)>>
  ELSE <<Message("success", <<"All operations completed">>)>>

ProbeMessages(probe) ==
  IF probe = "found"
  THEN <<Message("success", <<"File saved">>), Message("info", <<"File size">>),
         Message("info", <<"Location">>)>>
  ELSE <<Message("warning", <<"Download completed but file location could not be verified">>),
         Message("info", <<"Check folder">>)>>
       \o (IF probe = "listed" THEN <<Message("list", <<"Files in downloads folder">>)>>
           ELSE <<>>)

\* if (code === 1) { ... install ffmpeg ... }
AdvisoryMessages(code) ==
  IF code = "1"
  THEN <<Message("info", <<"To enable video+audio merging, install ffmpeg:">>),
         Message("info", <<"npm install ffmpeg-static">>),
         Message("info", <<"or download from: https://ffmpeg.org/download.html">>)>>
  ELSE <<>>

\* childProcess.on("close", ...): everything it prints.
CloseMessages(code, merging, probe) ==
  IF Accepted(code)
  THEN SummaryMessages(code, merging) \o ProbeMessages(probe) \o AdvisoryMessages(code)
  ELSE <<>>

\* resolve() and reject() of a promise that is already settled do nothing.
Settle(promise, outcome) == IF promise = "pending" THEN outcome ELSE promise

\* ------------------------------------------------------ CONFIG.qualities
\* The object literal, in the order of the source text.  Keys are text.
QualityLiteral ==
  << [key |-> <<"3", "6", "0">>, format |-> "bestvideo[height<=360]+bestaudio/best",
      label |-> "Low (360p)"],
     [key |-> <<"4", "8", "0">>, format |-> "bestvideo[height<=480]+bestaudio/best",
      label |-> "SD (480p)"],
     [key |-> <<"7", "2", "0">>, format |-> "bestvideo[height<=720]+bestaudio/best",
      label |-> "HD (720p)"],
     [key |-> <<"1", "0", "8", "0">>, format |-> "bestvideo[height<=1080]+bestaudio/best",
      label |-> "Full HD (1080p)"],
     [key |-> <<"1", "4", "4", "0">>, format |-> "bestvideo[height<=1440]+bestaudio/best",
      label |-> "2K (1440p)"],
     [key |-> <<"2", "1", "6", "0">>, format |-> "bestvideo[height<=2160]+bestaudio/best",
      label |-> "4K (2160p)"],
     [key |-> <<"a", "u", "d", "i", "o">>, format |-> "bestaudio/best",
      label |-> "Audio Only (Best Quality)"],
     [key |-> <<"b", "e", "s", "t">>, format |-> "bestvideo+bestaudio/best",
      label |-> "Best Available Quality"] >>

AUDIO == <<"a", "u", "d", "i", "o">>
BEST  == <<"b", "e", "s", "t">>

OwnKeys == {QualityLiteral[i].key : i \in 1..Len(QualityLiteral)}

\* Property names every object inherits from Object.prototype that are
\* written in lower case only; their values are truthy.
InheritedKeys ==
  { <<"c", "o", "n", "s", "t", "r", "u", "c", "t", "o", "r">>,
    <<"_", "_", "p", "r", "o", "t", "o", "_", "_">> }

\* CONFIG.qualities[quality] is truthy.
HasQuality(quality) == quality \in OwnKeys \/ quality \in InheritedKeys

Entry(key) == QualityLiteral[CHOOSE i \in 1..Len(QualityLiteral) : QualityLiteral[i].key = key]

\* CONFIG.qualities[quality]?.format || CONFIG.qualities.best.format
FormatOf(quality) ==
  IF quality \in OwnKeys THEN Entry(quality).format ELSE Entry(BEST).format

\* ---------------------------------------------------- quality resolution
Uppers == <<"A", "B", "C", "D", "E", "F", "G", "H", "I", "J", "K", "L", "M",
            "N", "O", "P", "Q", "R", "S", "T", "U", "V", "W", "X", "Y", "Z">>
Lowers == <<"a", "b", "c", "d", "e", "f", "g", "h", "i", "j", "k", "l", "m",
            "n", "o", "p", "q", "r", "s", "t", "u", "v", "w", "x", "y", "z">>

LowerOf(c) ==
  IF \E i \in 1..26 : Uppers[i] = c
  THEN Lowers[CHOOSE i \in 1..26 : Uppers[i] = c]
  ELSE c

\* String.prototype.toLowerCase
ToLowerCase(str) == [i \in 1..Len(str) |-> LowerOf(str[i])]

\* parseInt(string) without radix, for text that does not start with "0x":
\* an optional sign and the longest run of decimal digits after it; NaN when
\* there is no digit.  White space has been trimmed by promptUser.
ParseInt(str) ==
  LET signed == str # <<>> /\ str[1] \in {"+", "-"}
      from == IF signed THEN 2 ELSE 1
      n == RunLen(str, from, Digits)
      magnitude == DigitsValue(SubSeq(str, from, from + n - 1))
  IN [isNaN |-> n = 0,
      value |-> IF signed /\ str[1] = "-" THEN 0 - magnitude ELSE magnitude]

\* A property name that is an integer index: decimal digits, no leading zero.
IsIntegerKey(key) ==
  /\ key # <<>>
  /\ \A i \in 1..Len(key) : key[i] \in Digits
  /\ (Len(key) > 1 => key[1] # "0")

RECURSIVE AscendingKeys(_)
AscendingKeys(keys) ==
  IF keys = {} THEN <<>>
  ELSE LET least == CHOOSE k \in keys :
                      \A other \in keys : DigitsValue(k) <= DigitsValue(other)
       IN <<least>> \o AscendingKeys(keys \ {least})

LiteralKeys == [i \in 1..Len(QualityLiteral) |-> QualityLiteral[i].key]

IsStringKey(key) == ~IsIntegerKey(key)

\* Object.keys(CONFIG.qualities): integer keys in ascending order, then the
\* other keys in the order of the literal.
ObjectKeys ==
  AscendingKeys({k \in OwnKeys : IsIntegerKey(k)}) \o SelectSeq(LiteralKeys, IsStringKey)

\* Variant: the index without "- 1".
QualityIndex_NoOffset(qualityInput) ==
  LET parsed == ParseInt(qualityInput)
  IN [isNaN |-> parsed.isNaN, value |-> parsed.value]

\* const qualityIndex = parseInt(qualityInput) - 1;
QualityIndex(qualityInput) ==
  LET parsed == ParseInt(qualityInput)
  IN [isNaN |-> parsed.isNaN, value |-> parsed.value - 1]

\* if (qualityIndex >= 0 && qualityIndex < qualityKeys.length)
IndexInRange(index) ==
  ~index.isNaN /\ index.value >= 0 /\ index.value < Len(ObjectKeys)

\* main, from "let quality = ..." to the end of "if (!CONFIG.qualities[quality])":
\* the quality chosen and the warning printed (a message is written by the
\* fixed part of its text).
ResolveQuality(qualityInput) ==
  LET lowered == ToLowerCase(qualityInput)
      typed == IF lowered = <<>> THEN BEST ELSE lowered
      index == QualityIndex(qualityInput)
      picked == IF IndexInRange(index) THEN ObjectKeys[index.value + 1] ELSE typed
  IN IF ~HasQuality(picked)
     THEN [quality |-> BEST,
           printed |-> <<Message("warning", <<"Invalid quality">>)>>]
     ELSE [quality |-> picked, printed |-> <<>>]

\* ------------------------------------------------------ spawn arguments
\* Array.prototype.indexOf, 1-based; 0 stands for -1.
IndexOf(seq, x) ==
  IF \E i \in 1..Len(seq) : seq[i] = x
  THEN CHOOSE i \in 1..Len(seq) : seq[i] = x /\ \A j \in 1..(i - 1) : seq[j] # x
  ELSE 0

\* args.splice(i, n) with i a 1-based index.
Splice(seq, i, n) ==
  SubSeq(seq, 1, i - 1) \o SubSeq(seq, i + n, Len(seq))

URL == <<"URL">>
OUTPUT == <<"OUTPUT">>

BaseArgs(quality) ==
  << URL, <<"--format">>, <<FormatOf(quality)>>, <<"--output">>, OUTPUT,
     <<"--merge-output-format">>, IF quality = AUDIO THEN <<"mp3">> ELSE <<"mp4">>,
     <<"--newline">>, <<"--no-playlist">> >>
  \o (IF quality = AUDIO
      THEN << <<"--embed-thumbnail">>, <<"--embed-metadata">>, <<"--add-metadata">> >>
      ELSE <<>>)

\* The else branch of "if (ffmpegPath)".
WithoutFfmpeg(args, quality) ==
  LET mergeIndex == IndexOf(args, <<"--merge-output-format">>)
      a1 == IF mergeIndex # 0 THEN Splice(args, mergeIndex, 2) ELSE args
      formatIndex == IndexOf(a1, <<"--format">>)
  IN IF formatIndex # 0 /\ quality # AUDIO
     THEN [a1 EXCEPT ![formatIndex + 1] = <<"best[height<=">> \o quality \o <<"]/best">>]
     ELSE a1

\* The argument list handed to spawn.
BuildArgs(quality, ffmpegFound) ==
  IF ffmpegFound
  THEN BaseArgs(quality) \o << <<"--ffmpeg-location">>, <<"FFMPEGPATH">> >>
  ELSE WithoutFfmpeg(BaseArgs(quality), quality)

\* What the executor prints before it spawns.
SetupMessages(ffmpegFound) ==
  << Message("info", <<"Using yt-dlp from">>),
     IF ffmpegFound THEN Message("info", <<"Using ffmpeg from">>)
     ELSE Message("warning", <<"ffmpeg not found - will download best single format without merging">>),
     Message("info", <<"Starting download...">>) >>

\* ------------------------------------------------- what the subprocess says
\* Decimal digits of a natural number.
RECURSIVE DigitsOf(_)
DigitsOf(n) ==
  LET d == <<"0", "1", "2", "3", "4", "5", "6", "7", "8", "9">>[(n % 10) + 1]
  IN IF n < 10 THEN <<d>> ELSE Append(DigitsOf(n \div 10), d)

\* The percentages (in tenths) of the progress lines of the model.
PctValues == {452, 456, 1000}

\* yt-dlp's progress line for v: "[download]  45.2% x" and, for the line that
\* ends a file, "[download] 100% x".
PctLine(v) ==
  IF v = 1000 THEN <<DL, SP>> \o DigitsOf(100) \o <<PCT, TXT>>
  ELSE <<DL, SP, SP>> \o DigitsOf(v \div 10) \o <<DOT>> \o DigitsOf(v % 10) \o <<PCT, TXT>>

PctLines == {PctLine(v) : v \in PctValues}

DestinationLine == <<DL, SP, DEST, TXT>>
AlreadyLine     == <<DL, SP, TXT, SP, ALREADY>>
MergerLine      == <<MERGER, SP, TXT>>
DeletingLine    == <<DELETING, SP, TXT>>
MetadataLine    == <<META, SP, TXT>>

OtherLines == {DestinationLine, AlreadyLine, MergerLine, DeletingLine, MetadataLine}

StdoutLines == PctLines \cup OtherLines

StderrChunks ==
  { <<ERRORMARK, SP, TXT, NL>>,
    <<ERRORMARK, SP, FFWORD, NL>>,
    <<WARNMARK, SP, UNABLE, NL>>,
    <<WARNMARK, SP, TXT, NL>>,
    <<ERRORMARK, SP, TXT, NL, WARNMARK, SP, FFWORD, NL>> }

\* The quality downloadVideo is called with in the runs of Spec.
RunQualities == {BEST}

\* ------------------------------------------------------------------ state
\* What the run finds around it: whether the dynamic import of yt-dlp-exec
\* succeeds, whether one of the ffmpeg locations exists, whether
\* fs.existsSync(ytdlpPath) holds, whether the executable can be started.
Environments ==
  [importOk : BOOLEAN, ffmpegFound : BOOLEAN, exeExists : BOOLEAN, spawnOk : BOOLEAN]

VARIABLES
  env,            \* the environment of the run
  quality,        \* parameter of downloadVideo
  promise,        \* the promise downloadVideo returns: pending, resolved, rejected
  rejection,      \* what it was rejected with, "none" before
  child,          \* the subprocess: none, running, failing, errored, closed
  args,           \* the argument list given to spawn
  setupOut,       \* messages of the executor
  lastProgress,   \* closure variable
  isDownloading,  \* closure variable
  isMerging,      \* closure variable
  events,         \* what the stdout handler printed
  errOut,         \* what the stderr handler printed
  closeOut,       \* what the close handler printed
  closeCode,      \* status the close handler was called with, "none" before
  pipe,           \* standard output written by the subprocess, not yet read
  sent,           \* history: the lines the subprocess has written
  errSent,        \* history: the chunks it has written on its standard error
  writesLeft,     \* number of writes the subprocess may still make
  pc,             \* where main is; "unit" when downloadVideo runs on its own
  videoInfo,      \* result of getVideoInfo: none, titled, untitled
  qualityInput,   \* the trimmed answer to the quality prompt
  mainOut,        \* what main printed
  exitStatus,     \* exit status of the program, "none" while it runs
  barPercentage,  \* createProgressBar on its own: first argument, in tenths
  barWidth,       \* createProgressBar on its own: second argument
  barText         \* createProgressBar on its own: what it returned, <<>> before

runVars == <<env, quality, promise, rejection, child, args, setupOut>>
classifierVars == <<lastProgress, isDownloading, isMerging, events>>
streamVars == <<pipe, sent, errSent, writesLeft>>
mainVars == <<pc, videoInfo, qualityInput, mainOut, exitStatus>>
barVars == <<barPercentage, barWidth, barText>>
vars == <<env, quality, promise, rejection, child, args, setupOut, lastProgress,
          isDownloading, isMerging, events, errOut, closeOut, closeCode,
          pipe, sent, errSent, writesLeft, pc, videoInfo, qualityInput, mainOut,
          exitStatus, barPercentage, barWidth, barText>>

\* downloadVideo(url, quality, outputPath) up to "return new Promise(...)".
Idle(e, writes) ==
  /\ env = e
  /\ child = "none"
  /\ rejection = "none"
  /\ args = <<>>
  /\ setupOut = <<>>
  /\ lastProgress = ClassifierInit.lastProgress
  /\ isDownloading = ClassifierInit.isDownloading
  /\ isMerging = ClassifierInit.isMerging
  /\ events = ClassifierInit.out
  /\ errOut = <<>>
  /\ closeOut = <<>>
  /\ closeCode = "none"
  /\ pipe = <<>>
  /\ sent = <<>>
  /\ errSent = <<>>
  /\ writesLeft = writes

\* createProgressBar is not called on its own.
NoBarCall ==
  /\ barPercentage = 0
  /\ barWidth = DefaultWidth
  /\ barText = <<>>

\* downloadVideo(url, quality, outputPath) called on its own, up to
\* "return new Promise(...)".
Init ==
  /\ NoBarCall
  /\ \E e \in Environments : Idle(e, MaxWrites)
  /\ quality \in RunQualities
  /\ promise = "pending"
  /\ pc = "unit"
  /\ videoInfo = "none"
  /\ qualityInput = <<>>
  /\ mainOut = <<>>
  /\ exitStatus = "none"

\* The program at the start of main.
InitMain ==
  /\ NoBarCall
  /\ \E e \in Environments : Idle(e, MaxWritesMain)
  /\ quality = <<>>
  /\ promise = "none"
  /\ pc = "promptUrl"
  /\ videoInfo = "none"
  /\ qualityInput = <<>>
  /\ mainOut = <<>>
  /\ exitStatus = "none"

\* A settled promise resumes main before any other event is handled.
Resuming == pc = "downloading" /\ promise \in {"resolved", "rejected"}

\* The program runs and can handle an event of the subprocess.
Listening == pc \in {"unit", "downloading"} /\ ~Resuming

\* The promise executor, from the dynamic import to spawn.
Executor ==
  /\ Listening
  /\ child = "none"
  /\ promise = "pending"
  /\ IF ~env.importOk
     THEN /\ promise' = "rejected"
          /\ rejection' = "Could not find yt-dlp executable"
          /\ UNCHANGED <<child, args, setupOut>>
     ELSE IF ~env.exeExists
     THEN /\ promise' = "rejected"
          /\ rejection' = "yt-dlp executable not found at"
          /\ setupOut' = SetupMessages(env.ffmpegFound)
          /\ UNCHANGED <<child, args>>
     ELSE /\ args' = BuildArgs(quality, env.ffmpegFound)
          /\ setupOut' = SetupMessages(env.ffmpegFound)
          /\ child' = IF env.spawnOk THEN "running" ELSE "failing"
          /\ UNCHANGED <<promise, rejection>>
  /\ UNCHANGED barVars
  /\ UNCHANGED <<env, quality, classifierVars, errOut, closeOut, closeCode, streamVars,
                 mainVars>>

\* The subprocess prints one line on its standard output.
ChildWrite ==
  /\ Listening
  /\ child = "running"
  /\ writesLeft > 0
  /\ \E line \in StdoutLines :
       /\ pipe' = pipe \o line \o <<NL>>
       /\ sent' = Append(sent, line)
  /\ writesLeft' = writesLeft - 1
  /\ UNCHANGED barVars
  /\ UNCHANGED <<runVars, classifierVars, errOut, closeOut, closeCode, errSent, mainVars>>

\* The ways the stream can cut the text it holds: after any token, or
\* inside any literal; chunk is what it hands over, rest what it keeps.
Cuts(text) ==
  {[chunk |-> SubSeq(text, 1, n), rest |-> SubSeq(text, n + 1, Len(text))] :
     n \in 1..Len(text)}
  \cup
  {[chunk |-> Append(SubSeq(text, 1, n - 1), FirstPart(text[n])),
    rest |-> <<SecondPart(text[n])>> \o SubSeq(text, n + 1, Len(text))] :
     n \in {i \in 1..Len(text) : text[i] \in Literals}}

\* A "data" event of childProcess.stdout: the stream hands over what it has
\* read, which may end anywhere in the text.
StdoutData ==
  /\ Listening
  /\ child = "running"
  /\ \E cut \in Cuts(pipe) :
       LET st == StdoutHandler(
                   [lastProgress |-> lastProgress, isDownloading |-> isDownloading,
                    isMerging |-> isMerging, out |-> events],
                   cut.chunk)
       IN /\ lastProgress' = st.lastProgress
          /\ isDownloading' = st.isDownloading
          /\ isMerging' = st.isMerging
          /\ events' = st.out
          /\ pipe' = cut.rest
  /\ UNCHANGED barVars
  /\ UNCHANGED <<runVars, errOut, closeOut, closeCode, sent, errSent, writesLeft,
                 mainVars>>

\* Variant: a chunk that mentions ffmpeg also sets isMerging.
StderrData_SetsMerging ==
  /\ Listening
  /\ child = "running"
  /\ writesLeft > 0
  /\ \E chunk \in StderrChunks :
       /\ errOut' = errOut \o StderrHandler(chunk)
       /\ errSent' = Append(errSent, chunk)
       /\ isMerging' = (isMerging \/ Includes(chunk, <<FFWORD>>))
  /\ writesLeft' = writesLeft - 1
  /\ UNCHANGED barVars
  /\ UNCHANGED <<runVars, lastProgress, isDownloading, events, closeOut, closeCode,
                 pipe, sent, mainVars>>

\* The subprocess writes on its standard error and the chunk arrives in a
\* "data" event of childProcess.stderr.
StderrData ==
  /\ Listening
  /\ child = "running"
  /\ writesLeft > 0
  /\ \E chunk \in StderrChunks :
       /\ errOut' = errOut \o StderrHandler(chunk)
       /\ errSent' = Append(errSent, chunk)
  /\ writesLeft' = writesLeft - 1
  /\ UNCHANGED barVars
  /\ UNCHANGED <<runVars, classifierVars, closeOut, closeCode, pipe, sent, mainVars>>

\* The "error" event of a subprocess that could not be started.
ChildError ==
  /\ Listening
  /\ child = "failing"
  /\ child' = "errored"
  /\ promise' = Settle(promise, "rejected")
  /\ rejection' = IF promise = "pending" THEN "spawn error" ELSE rejection
  /\ UNCHANGED barVars
  /\ UNCHANGED <<env, quality, args, setupOut, classifierVars, errOut, closeOut,
                 closeCode, streamVars, mainVars>>

\* The "close" event: the subprocess has ended and its streams are drained.
ChildClose ==
  /\ Listening
  /\ (child = "running" /\ pipe = <<>>) \/ child = "errored"
  /\ \E code \in (IF child = "running" THEN ExitCodes ELSE SpawnErrorCodes),
        probe \in Probes :
       /\ closeCode' = code
       /\ closeOut' = CloseMessages(code, isMerging, probe)
       /\ promise' = Settle(promise, IF Accepted(code) THEN "resolved" ELSE "rejected")
       /\ rejection' = IF promise = "pending" /\ ~Accepted(code)
                       THEN "yt-dlp process exited with code" ELSE rejection
  /\ child' = "closed"
  /\ UNCHANGED barVars
  /\ UNCHANGED <<env, quality, args, setupOut, classifierVars, errOut, streamVars,
                 mainVars>>

Next == Executor \/ ChildWrite \/ StdoutData \/ StderrData \/ ChildError \/ ChildClose

Spec == Init /\ [][Next]_vars

\* ------------------------------------------------------------------- main
\* The answers to the quality prompt: every text of at most MaxInputLen
\* characters of InputAlphabet, and some longer ones.
InputAlphabet == {"0", "1", "3", "8", "9", "a", "B", "-", SP}

LongAnswers ==
  OwnKeys \cup InheritedKeys \cup
  { <<"B", "E", "S", "T">>, <<"B", "e", "s", "t">>, <<"A", "u", "d", "i", "o">>,
    <<"7", "2", "0", "p">>, <<"3", "a", "b", "c">>, <<"b", "e", "s", "t", "!">> }

QualityAnswers ==
  UNION {[1..n -> InputAlphabet] : n \in 0..MaxInputLen} \cup LongAnswers

\* The answer to the URL prompt arrives; main goes on to getVideoInfo.
PromptUrl ==
  /\ pc = "promptUrl"
  /\ \E videoUrl \in {<<>>, URL} :
       IF videoUrl = <<>>
       THEN /\ mainOut' = Append(mainOut, Message("error", <<"No URL provided!">>))
            /\ exitStatus' = "1"
            /\ pc' = "exited"
       ELSE /\ mainOut' = mainOut \o <<Message("info", <<"Processing URL">>),
                                        Message("info", <<"Fetching video information...">>)>>
            /\ pc' = "fetching"
            /\ UNCHANGED exitStatus
  /\ UNCHANGED barVars
  /\ UNCHANGED <<runVars, classifierVars, errOut, closeOut, closeCode, streamVars,
                 videoInfo, qualityInput>>

\* ytdlp(url, ...) settles; on success main shows the options and asks for
\* the quality, on failure the catch block of main ends the program.
GetVideoInfo ==
  /\ pc = "fetching"
  /\ \E result \in {"failed", "titled", "untitled"} :
       IF result = "failed"
       THEN /\ mainOut' = mainOut \o <<Message("error", <<"Failed to fetch video info">>),
                                        Message("error", <<"An error occurred">>)>>
            /\ exitStatus' = "1"
            /\ pc' = "exited"
            /\ UNCHANGED videoInfo
       ELSE /\ videoInfo' = result
            /\ pc' = "promptQuality"
            /\ UNCHANGED <<mainOut, exitStatus>>
  /\ UNCHANGED barVars
  /\ UNCHANGED <<runVars, classifierVars, errOut, closeOut, closeCode, streamVars,
                 qualityInput>>

\* The callback of rl.question in promptUser: the answer, trimmed.
AnswerQuality ==
  /\ pc = "promptQuality"
  /\ \E answer \in QualityAnswers : qualityInput' = Trim(answer)
  /\ pc' = "answered"
  /\ UNCHANGED barVars
  /\ UNCHANGED <<runVars, classifierVars, errOut, closeOut, closeCode, streamVars,
                 videoInfo, mainOut, exitStatus>>

\* main from "let quality" to the end of "if (!CONFIG.qualities[quality])".
\* Nothing else can happen between this step and CallDownload: they are one
\* run of main, shown in two steps so that the answer and the quality it
\* resolves to stand in one state.
ChooseQuality ==
  /\ pc = "answered"
  /\ LET resolved == ResolveQuality(qualityInput)
     IN /\ quality' = resolved.quality
        /\ mainOut' = mainOut \o resolved.printed
  /\ pc' = "resolved"
  /\ UNCHANGED barVars
  /\ UNCHANGED <<env, promise, rejection, child, args, setupOut, classifierVars,
                 errOut, closeOut, closeCode, streamVars, videoInfo, qualityInput,
                 exitStatus>>

\* main from "const sanitizedTitle" to "await downloadVideo(...)": the title
\* is cleaned (a TypeError without a title, caught by main) and downloadVideo
\* is called.  The answer is not read again; it is dropped from the state.
CallDownload ==
  /\ pc = "resolved"
  /\ IF videoInfo = "untitled"
     THEN /\ mainOut' = Append(mainOut, Message("error", <<"An error occurred">>))
          /\ exitStatus' = "1"
          /\ pc' = "exited"
          /\ UNCHANGED promise
     ELSE /\ promise' = "pending"
          /\ pc' = "downloading"
          /\ UNCHANGED <<mainOut, exitStatus>>
  /\ qualityInput' = <<>>
  /\ UNCHANGED barVars
  /\ UNCHANGED <<env, quality, rejection, child, args, setupOut, classifierVars,
                 errOut, closeOut, closeCode, streamVars, videoInfo>>

\* Variant: the catch block without process.exit(1).
MainResume_NoExit ==
  /\ Resuming
  /\ IF promise = "resolved"
     THEN /\ mainOut' = Append(mainOut,
                               Message("success", <<"All operations completed successfully!">>))
     ELSE /\ mainOut' = Append(mainOut, Message("error", <<"An error occurred">>))
  /\ exitStatus' = "0"
  /\ pc' = "done"
  /\ UNCHANGED barVars
  /\ UNCHANGED <<runVars, classifierVars, errOut, closeOut, closeCode, streamVars,
                 videoInfo, qualityInput>>

\* main after "await downloadVideo(...)": the summary, or the catch block.
MainResume ==
  /\ Resuming
  /\ IF promise = "resolved"
     THEN /\ mainOut' = Append(mainOut,
                               Message("success", <<"All operations completed successfully!">>))
          /\ exitStatus' = "0"
          /\ pc' = "done"
     ELSE /\ mainOut' = Append(mainOut, Message("error", <<"An error occurred">>))
          /\ exitStatus' = "1"
          /\ pc' = "exited"
  /\ UNCHANGED barVars
  /\ UNCHANGED <<runVars, classifierVars, errOut, closeOut, closeCode, streamVars,
                 videoInfo, qualityInput>>

NextMain ==
  \/ PromptUrl \/ GetVideoInfo \/ AnswerQuality \/ ChooseQuality \/ CallDownload
  \/ MainResume
  \/ Executor \/ ChildWrite \/ StdoutData \/ StderrData \/ ChildError \/ ChildClose

SpecMain == InitMain /\ [][NextMain]_vars

\* The continuation of "await downloadVideo(...)" is a job of the microtask
\* queue: once the promise is settled it runs.
LiveMain == SpecMain /\ WF_vars(MainResume)

\* ------------------------------------------- createProgressBar on its own
BarPercentages == (0 - MaxExcess)..(1000 + MaxExcess)

BarWidths == 0..MaxWidth \cup {DefaultWidth}

\* Nothing of the program runs; the arguments of one call are chosen.
InitBar ==
  /\ Idle([importOk |-> TRUE, ffmpegFound |-> TRUE, exeExists |-> TRUE,
           spawnOk |-> TRUE], 0)
  /\ quality = <<>>
  /\ promise = "none"
  /\ pc = "bar"
  /\ videoInfo = "none"
  /\ qualityInput = <<>>
  /\ mainOut = <<>>
  /\ exitStatus = "none"
  /\ barPercentage \in BarPercentages
  /\ barWidth \in BarWidths
  /\ barText = <<>>

\* The call createProgressBar(percentage, width).
Render ==
  /\ pc = "bar"
  /\ barText = <<>>
  /\ barText' = createProgressBar(barPercentage, barWidth)
  /\ UNCHANGED <<barPercentage, barWidth>>
  /\ UNCHANGED <<runVars, classifierVars, errOut, closeOut, closeCode, streamVars,
                 mainVars>>

NextBar == Render

SpecBar == InitBar /\ [][NextBar]_vars

\* ============================================================ properties
\* ------------------------------------------------ vocabulary of the claims
\* The percents of the Downloading events printed so far, in order.
RECURSIVE DownloadingPercents(_)
DownloadingPercents(evs) ==
  IF evs = <<>> THEN <<>>
  ELSE (IF Head(evs).kind = "Downloading" THEN <<Head(evs).percent>> ELSE <<>>)
       \o DownloadingPercents(Tail(evs))

\* The percentage of a progress line the subprocess wrote.
ValueOfLine(line) == CHOOSE v \in PctValues : PctLine(v) = line

\* The percentages the subprocess has written, in order.
RECURSIVE SentPercents(_)
SentPercents(lines) ==
  IF lines = <<>> THEN <<>>
  ELSE (IF Head(lines) \in PctLines THEN <<ValueOfLine(Head(lines))>> ELSE <<>>)
       \o SentPercents(Tail(lines))

NonDecreasing(seq) == \A i, j \in 1..Len(seq) : i < j => seq[i] <= seq[j]

FloorsNonDecreasing(seq) ==
  \A i, j \in 1..Len(seq) : i < j => Floor(seq[i]) <= Floor(seq[j])

\* a can be obtained from b by deleting elements.
RECURSIVE IsSubsequence(_, _)
IsSubsequence(a, b) ==
  IF a = <<>> THEN TRUE
  ELSE IF b = <<>> THEN FALSE
  ELSE IF Head(a) = Head(b) THEN IsSubsequence(Tail(a), Tail(b))
  ELSE IsSubsequence(a, Tail(b))

Count(seq, x) == Cardinality({i \in 1..Len(seq) : seq[i] = x})

HasEvent(kind) == \E i \in 1..Len(events) : events[i].kind = kind

\* The events of a run in which every line arrives whole, in a chunk of its own.
RECURSIVE WholeLineRun(_, _)
WholeLineRun(st, lines) ==
  IF lines = <<>> THEN st
  ELSE WholeLineRun(StdoutHandler(st, Head(lines) \o <<NL>>), Tail(lines))

\* A step that hands a chunk to the stdout handler: what is left to read is
\* what one of the cuts leaves.
StdoutStep ==
  /\ pipe' # pipe
  /\ Len(pipe') <= Len(pipe)
  /\ \E cut \in Cuts(pipe) : pipe' = cut.rest

\* The chunk of such a step: what the cut took, with the first part of the
\* literal it fell in when what is left does not start at a token of pipe.
Delivered ==
  LET n == Len(pipe) - Len(pipe')
  IN IF pipe' = SubSeq(pipe, n + 1, Len(pipe))
     THEN SubSeq(pipe, 1, n)
     ELSE Append(SubSeq(pipe, 1, n), FirstPart(pipe[n + 1]))

\* The percentages the pattern finds in the pieces of a chunk, in order.
RECURSIVE MatchedPercents(_)
MatchedPercents(pieces) ==
  IF pieces = <<>> THEN <<>>
  ELSE (IF DownloadMatch(Head(pieces)) # <<>>
        THEN <<ParseFloat(DownloadMatch(Head(pieces)))>> ELSE <<>>)
       \o MatchedPercents(Tail(pieces))

\* ---------------------------------------------------------------------- C1
\* C1: once the whole output has been read, the events printed are those of
\* the run in which each line arrives whole in its own chunk, however the
\* text was cut into chunks.
C1_ChunkBoundaryInvariance ==
  pipe = <<>> => events = WholeLineRun(ClassifierInit, sent).out

\* ---------------------------------------------------------------------- C2
\* C2 as stated: the Downloading events printed are non-decreasing in
\* floor(percent), for every sequence of progress lines.
C2_AlwaysNonDecreasing == FloorsNonDecreasing(DownloadingPercents(events))

\* C2: the percents of the Downloading events are, in order, a selection of
\* the percentages the subprocess wrote; so they are non-decreasing in
\* floor(percent) whenever the written percentages are non-decreasing.
C2_FollowsInputOrder ==
  /\ IsSubsequence(DownloadingPercents(events), SentPercents(sent))
  /\ NonDecreasing(SentPercents(sent))
       => FloorsNonDecreasing(DownloadingPercents(events))

\* Two rising percentages were written and both were printed.
C2_Witness ==
  /\ SentPercents(sent) = <<452, 1000>>
  /\ DownloadingPercents(events) = <<452, 1000>>

RECURSIVE RuleEmits(_, _)
RuleEmits(last, vals) ==
  IF vals = <<>> THEN <<>>
  ELSE IF Floor(Head(vals)) # Floor(last) \/ Head(vals) = 1000
       THEN <<Head(vals)>> \o RuleEmits(Head(vals), Tail(vals))
       ELSE RuleEmits(last, Tail(vals))

LastOr(seq, default) == IF seq = <<>> THEN default ELSE seq[Len(seq)]

Degraded ==
  \E i \in 1..Len(closeOut) :
    closeOut[i] = Message("warning", <<"Download completed with warnings">>)

\* C5: at close the run is reported as degraded exactly when the status is 1
\* and a Merging event was printed before.
C5_DegradedIffMerging ==
  child = "closed" => (Degraded <=> (closeCode = "1" /\ HasEvent("Merging")))

C5_Witness ==
  child = "closed" /\ closeCode = "1" /\ HasEvent("Merging") /\ Degraded

\* ---------------------------------------------------------------------- C6
ExecutorRan == child # "none" \/ promise # "pending"

ErrorEventSeen == child = "errored" \/ closeCode \in SpawnErrorCodes

\* C6: the promise is rejected exactly when the executable was not located,
\* the spawn reported an error, or the subprocess closed with a status other
\* than 0 and 1; it is resolved exactly when the subprocess closed with 0 or
\* 1; without the executable nothing is spawned.
C6_CompletionSignal ==
  /\ promise = "rejected"
       <=> /\ ExecutorRan
           /\ \/ ~env.importOk
              \/ ~env.exeExists
              \/ ErrorEventSeen
              \/ (child = "closed" /\ closeCode \notin {"0", "1"})
  /\ promise = "resolved" <=> (child = "closed" /\ closeCode \in {"0", "1"})
  /\ (~env.importOk \/ ~env.exeExists) => (child = "none" /\ args = <<>>)

\* A run rejected because the subprocess was ended by a signal.
C6_Witness == promise = "rejected" /\ child = "closed" /\ closeCode = "null"

\* ---------------------------------------------------------------------- C7
\* C7: a run closed with status 1 in which no Merging event was printed gets
\* the messages of a run closed with status 0: no remediation advisory.
C7_StatusOneLikeZero ==
  (child = "closed" /\ closeCode = "1" /\ ~HasEvent("Merging"))
    => \E probe \in Probes : closeOut = CloseMessages("0", FALSE, probe)

\* ---------------------------------------------------------------------- C8
ForwardOnly(kinds) ==
  \A i, j \in 1..Len(kinds) :
    i < j => /\ ~(kinds[i] = "Merging" /\ kinds[j] = "Downloading")
             /\ ~(kinds[i] = "EmbeddingMetadata"
                    /\ kinds[j] \in {"Downloading", "Merging"})

EventKinds == [i \in 1..Len(events) |-> events[i].kind]

\* The phase a line of the subprocess announces.
PhaseOfLine(line) ==
  IF line \in PctLines THEN "Downloading"
  ELSE IF line = MergerLine THEN "Merging"
  ELSE IF line = MetadataLine THEN "EmbeddingMetadata"
  ELSE "none"

SentPhases == [i \in 1..Len(sent) |-> PhaseOfLine(sent[i])]

\* C8 as stated: no Downloading event after a Merging event, no Downloading
\* or Merging event after an EmbeddingMetadata event, whatever the lines.
C8_AlwaysForward == ForwardOnly(EventKinds)

\* C8: the events keep the order of the lines: when the lines of the
\* subprocess announce their phases in forward order, so do the events.
C8_ForwardWhenInputIs == ForwardOnly(SentPhases) => ForwardOnly(EventKinds)

C8_Witness ==
  /\ sent = <<PctLine(452), MergerLine>>
  /\ EventKinds = <<"Downloading", "Merging">>

\* ---------------------------------------------------------------- C9, C10
\* main has resolved the quality and is about to go on.
ResolutionDone == pc = "resolved"

Warned == \E i \in 1..Len(mainOut) : mainOut[i].type = "warning"

\* The answer names a key of the catalog, letter case aside.
NamesKey(answer, key) ==
  Len(answer) = Len(key) /\ \A i \in 1..Len(key) : LowerOf(answer[i]) = key[i]

\* The answer is the decimal numeral of n.
IsOrdinal(answer, n) == answer = DigitsOf(n)

\* The catalog in the order in which it is listed to the user.
IterationOrder ==
  << <<"3", "6", "0">>, <<"4", "8", "0">>, <<"7", "2", "0">>, <<"1", "0", "8", "0">>,
     <<"1", "4", "4", "0">>, <<"2", "1", "6", "0">>, AUDIO, BEST >>

Recognised(answer) ==
  \/ \E key \in OwnKeys : NamesKey(answer, key)
  \/ \E n \in 1..Len(IterationOrder) : IsOrdinal(answer, n)

\* C9: an answer that is neither a key of the catalog (letter case aside)
\* nor an ordinal within the catalog resolves to "best" with a warning, and
\* the resolved quality is always a key of the catalog.
C9_FallbackToBest ==
  ResolutionDone =>
    /\ quality \in OwnKeys
    /\ ~Recognised(qualityInput) => (quality = BEST /\ Warned)

\* C10: an answer that names a key resolves to that key, an answer that is
\* the ordinal n resolves to the n-th key of the catalog as listed, and in
\* both cases no warning is printed.
C10_RecognisedInput ==
  ResolutionDone =>
    /\ \A key \in OwnKeys :
         NamesKey(qualityInput, key) => (quality = key /\ ~Warned)
    /\ \A n \in 1..Len(IterationOrder) :
         IsOrdinal(qualityInput, n) => (quality = IterationOrder[n] /\ ~Warned)

\* The answer "3" chose the third profile, 720.
C10_Witness ==
  /\ ResolutionDone
  /\ qualityInput = <<"3">>
  /\ quality = <<"7", "2", "0">>
  /\ ~Warned

\* ---------------------------------------------------------------------- C11
\* The height ceiling written in a format selector of the catalog; <<>> when
\* the selector has none.
CeilingOfFormat(format) ==
  CASE format = "bestvideo[height<=360]+bestaudio/best" -> <<"3", "6", "0">>
    [] format = "bestvideo[height<=480]+bestaudio/best" -> <<"4", "8", "0">>
    [] format = "bestvideo[height<=720]+bestaudio/best" -> <<"7", "2", "0">>
    [] format = "bestvideo[height<=1080]+bestaudio/best" -> <<"1", "0", "8", "0">>
    [] format = "bestvideo[height<=1440]+bestaudio/best" -> <<"1", "4", "4", "0">>
    [] format = "bestvideo[height<=2160]+bestaudio/best" -> <<"2", "1", "6", "0">>
    [] OTHER -> <<>>

HasArg(flag) == IndexOf(args, flag) # 0

\* The argument that follows flag in the list given to spawn.
ArgAfter(flag) == args[IndexOf(args, flag) + 1]

Spawned == child # "none"

\* C11: in the arguments given to spawn for a profile of the catalog: with
\* the helper, "--merge-output-format" is followed by mp3 for audio and mp4
\* otherwise and the format selector is the catalog's; without the helper,
\* the merge argument and its value are absent, the selector of audio is the
\* catalog's and the selector of every other profile is the single-file
\* fallback bounded by the height ceiling of the profile.
C11_ArgsByHelper ==
  (Spawned /\ quality \in OwnKeys) =>
    IF env.ffmpegFound
    THEN /\ HasArg(<<"--merge-output-format">>)
         /\ ArgAfter(<<"--merge-output-format">>)
              = (IF quality = AUDIO THEN <<"mp3">> ELSE <<"mp4">>)
         /\ ArgAfter(<<"--format">>) = <<Entry(quality).format>>
    ELSE /\ ~HasArg(<<"--merge-output-format">>)
         /\ ~HasArg(<<"mp3">>) /\ ~HasArg(<<"mp4">>)
         /\ IF quality = AUDIO
            THEN ArgAfter(<<"--format">>) = <<Entry(AUDIO).format>>
            ELSE /\ CeilingOfFormat(Entry(quality).format) # <<>>
                 /\ ArgAfter(<<"--format">>)
                      = <<"best[height<=">>
                          \o CeilingOfFormat(Entry(quality).format)
                          \o <<"]/best">>

\* The part of C11 that the profiles with a height ceiling and audio meet.
C11_ExceptBest == quality # BEST => C11_ArgsByHelper

\* ---------------------------------------------------------------------- C12
Printed(out, type, text) ==
  \E i \in 1..Len(out) : out[i] = Message(type, <<text>>)

UrlEntered == Printed(mainOut, "info", "Processing URL")

UrlEmpty == Printed(mainOut, "error", "No URL provided!")

FetchStarted == Printed(mainOut, "info", "Fetching video information...")

FetchFailed == Printed(mainOut, "error", "Failed to fetch video info")

\* The quality prompt was shown: getVideoInfo returned.
QualityPrompted == videoInfo # "none"

\* downloadVideo was called.
DownloadCalled == promise # "none"

DownloadFailed == promise = "rejected"

\* C12: a subprocess is started only after a URL was entered and the
\* metadata was fetched; an empty URL ends the program with status 1 before
\* any fetch or quality prompt; a failed fetch ends it with status 1 before
\* any quality prompt or download; a failed download leads to status 1.
C12_DriverOrder ==
  /\ [](/\ (DownloadCalled \/ Spawned) => (UrlEntered /\ FetchStarted /\ QualityPrompted)
        /\ UrlEmpty => /\ exitStatus = "1"
                       /\ ~FetchStarted /\ ~QualityPrompted /\ ~DownloadCalled /\ ~Spawned
        /\ FetchFailed => /\ exitStatus = "1"
                          /\ ~QualityPrompted /\ ~DownloadCalled /\ ~Spawned
        /\ (DownloadFailed /\ exitStatus # "none") => exitStatus = "1")
  /\ (DownloadFailed ~> exitStatus = "1")

\* A download that failed after its subprocess was started, and the exit.
C12_Witness ==
  /\ UrlEntered /\ QualityPrompted
  /\ child = "closed" /\ closeCode = "2"
  /\ DownloadFailed
  /\ exitStatus = "1"

\* ---------------------------------------------------------------------- C13
Rendered == pc = "bar" /\ barText # <<>>

\* round(percentage / 100 * width) clamped to [0, width].
ClampedFill(percentage, width) ==
  LET r == Round(percentage * width, 1000)
  IN IF r < 0 THEN 0 ELSE IF r > width THEN width ELSE r

\* A bar of width glyphs between brackets, filled of them filled.
IsBar(bar, filled, width) ==
  /\ Len(bar) = width + 2
  /\ bar[1] = "[" /\ bar[Len(bar)] = "]"
  /\ \A i \in 2..(filled + 1) : bar[i] = "#"
  /\ \A i \in (filled + 2)..(width + 1) : bar[i] = "-"

\* C13: for every percentage and every width the call returns a bar whose
\* filled glyphs number round(percentage / 100 * width) clamped to
\* [0, width] and whose empty glyphs make up the width; it never throws.
C13_ClampedBar ==
  Rendered =>
    /\ barText # RangeError
    /\ IsBar(barText, ClampedFill(barPercentage, barWidth), barWidth)

\* The part of C13 that holds: for percentages that round to a fill within
\* [0, width] the bar is as the claim says; (50, 10), (0, 10) and (100, 10)
\* are among them.
C13_InRange ==
  (Rendered /\ Round(barPercentage * barWidth, 1000) \in 0..barWidth) =>
    IsBar(barText, Round(barPercentage * barWidth, 1000), barWidth)

\* ---------------------------------------------------------------------- C14
\* The rule of the claim for one line of the error stream: the type of the
\* message it is reported with, or none.
LineReport(line) ==
  IF Includes(line, <<ERRORMARK>>)
  THEN IF Includes(line, <<FFWORD>>) THEN <<"warning">> ELSE <<"error">>
  ELSE IF Includes(line, <<WARNMARK>>) /\ Includes(line, <<UNABLE>>)
  THEN <<"warning">>
  ELSE <<>>

RECURSIVE LineReports(_)
LineReports(lines) ==
  IF lines = <<>> THEN <<>>
  ELSE LineReport(Head(lines)) \o LineReports(Tail(lines))

\* The reports of the lines of a run of chunks, in order.
RECURSIVE PerLineReports(_)
PerLineReports(chunks) ==
  IF chunks = <<>> THEN <<>>
  ELSE LineReports(SplitLines(Head(chunks))) \o PerLineReports(Tail(chunks))

ErrTypes == [i \in 1..Len(errOut) |-> errOut[i].type]

\* C14: the error stream is reported line by line: what was printed is, in
\* order, the report of every line written, whatever chunk it arrived in.
C14_PerLine == ErrTypes = PerLineReports(errSent)

\* The part of C14 that holds: a chunk of a single line is reported by the
\* rule of the claim.
C14_SingleLineChunks ==
  (\A i \in 1..Len(errSent) : Count(errSent[i], NL) = 1 /\ errSent[i][Len(errSent[i])] = NL)
    => ErrTypes = PerLineReports(errSent)

\* ---------------------------------------------------------------------- C15
\* The text of a run of lines, their newlines included.
RECURSIVE TextOf(_)
TextOf(lines) ==
  IF lines = <<>> THEN <<>> ELSE Head(lines) \o <<NL>> \o TextOf(Tail(lines))

\* What is still to be read starts at the start of a line.
AtLineStart ==
  \E k \in 0..Len(sent) : pipe = TextOf(SubSeq(sent, k + 1, Len(sent)))

\* A step that hands complete lines, and nothing else, to the stdout handler.
WholeLinesStep ==
  /\ StdoutStep
  /\ AtLineStart
  /\ Delivered[Len(Delivered)] = NL

\* C15: first match wins: complete lines print at most one event each.
C15_OneEventPerLine ==
  [][WholeLinesStep => Len(events') - Len(events) <= Count(Delivered, NL)]_vars

\* ---------------------------------------------------------------------- C16
MarkerWritten == \E i \in 1..Len(sent) : IsMergeLine(sent[i])

\* C16: once the output of a run that holds a merge marker line has been
\* read, exactly one Merging event has been printed.
C16_ExactlyOneMerging ==
  (pipe = <<>> /\ MarkerWritten) => Count(EventKinds, "Merging") = 1

\* The part of C16 that holds: at most one Merging event is printed, the
\* flag is set exactly when it has been printed, and it is never cleared.
C16_AtMostOneMerging ==
  /\ [](Count(EventKinds, "Merging") <= 1 /\ (isMerging <=> HasEvent("Merging")))
  /\ [][isMerging => isMerging']_vars

\* ---------------------------------------------------------------------- C17
\* The events a step adds.
NewEvents == SubSeq(events', Len(events) + 1, Len(events'))

NewKinds == [i \in 1..Len(NewEvents) |-> NewEvents[i].kind]

\* The pieces of a chunk that carry one of the two completion phrases.
CompletionPieces(chunk) ==
  LET pieces == SplitLines(chunk)
  IN {i \in 1..Len(pieces) :
        \/ Includes(pieces[i], <<DL, SP, "1", "0", "0", PCT>>)
        \/ Includes(pieces[i], <<ALREADY>>)}

\* C17: no download-step Completed notification comes after a Merging
\* event; a chunk prints one only if it carries a completion phrase, and if
\* the run is merging when the chunk arrives it prints none.
C17_CompletedOnlyBeforeMerging ==
  /\ [](\A i, j \in 1..Len(events) :
          i < j => ~(events[i].kind = "Merging" /\ events[j].kind = "DownloadCompleted"))
  /\ [][StdoutStep =>
          /\ Count(NewKinds, "DownloadCompleted") <= Cardinality(CompletionPieces(Delivered))
          /\ isMerging => Count(NewKinds, "DownloadCompleted") = 0]_vars

\* A 100% line after the merge marker: its Downloading event, no Completed.
C17_Witness ==
  /\ pipe = <<>>
  /\ sent = <<MergerLine, PctLine(1000)>>
  /\ EventKinds = <<"Merging", "Downloading">>

\* ---------------------------------------------------------------------- C18
\* C18: the initialization notification is printed at most once in a run.
C18_InitializedAtMostOnce == Count(EventKinds, "Initialized") <= 1

\* The part of C18 that holds: once a percentage line has been matched
\* (isDownloading is set) no initialization notification is printed, so none
\* follows a Downloading event.
C18_NoneAfterPercentage ==
  /\ [](\A i, j \in 1..Len(events) :
          i < j => ~(events[i].kind = "Downloading" /\ events[j].kind = "Initialized"))
  /\ [][(StdoutStep /\ isDownloading) => Count(NewKinds, "Initialized") = 0]_vars

\* ---------------------------------------------------------------------- C19
\* A step that hands a chunk to the stderr handler.
StderrStep == errSent' # errSent

\* The close handler runs for a subprocess that had been started.
CloseStep == child = "running" /\ child' = "closed"

Classifier ==
  [lastProgress |-> lastProgress, isDownloading |-> isDownloading,
   isMerging |-> isMerging, out |-> events]

\* C19: handling a stderr chunk leaves the classifier state, the stdout
\* events, the promise and the close report as they are; the events of a
\* stdout chunk are those the handler gives from the classifier state and the
\* chunk, and the outcome at close is that of the exit status and the merging
\* flag: neither depends on what the error stream carried or when.
C19_StreamIndependence ==
  [][/\ StderrStep =>
          UNCHANGED <<lastProgress, isDownloading, isMerging, events, pipe, sent,
                      promise, rejection, closeOut, closeCode>>
     /\ StdoutStep =>
          (/\ Classifier' = StdoutHandler(Classifier, Delivered)
           /\ UNCHANGED <<errOut, errSent>>)
     /\ CloseStep =>
          (/\ \E probe \in Probes :
                closeOut' = CloseMessages(closeCode', HasEvent("Merging"), probe)
           /\ promise' = Settle(promise, IF closeCode' \in {"0", "1"}
                                         THEN "resolved" ELSE "rejected"))]_vars

\* An error chunk that names ffmpeg came between the start and a merge
\* marker line; the run then closed with status 1 and was reported degraded.
C19_Witness ==
  /\ errSent = << <<ERRORMARK, SP, FFWORD, NL>> >>
  /\ sent = <<MergerLine>>
  /\ EventKinds = <<"Merging">>
  /\ child = "closed" /\ closeCode = "1" /\ Degraded

\* ---------------------------------------------------------------------- C20
Settled == promise \in {"resolved", "rejected"}

\* An "error" or a "close" event has been handled.
EventHandled == child \in {"errored", "closed"}

SummaryCount ==
  Count(closeOut, Message("success", <<"All operations completed">>))
  + Count(closeOut, Message("warning", <<"Download completed with warnings">>))

ProbeCount ==
  Count(closeOut, Message("success", <<"File saved">>))
  + Count(closeOut, Message("warning",
                            <<"Download completed but file location could not be verified">>))

=============================================================================
